---- MODULE Spec2Model ----
\* Model of the luggage size estimation endpoint (app.py): the rate-limited
\* POST /api/estimate-size handler, its input validation, the blocking call to
\* the external model and the parsing of the model's reply.
EXTENDS Integers, Sequences, FiniteSets, TLC

VARIABLES
    storage,   \* limiter storage: hits recorded per limiter key in the current window
    thread,    \* per worker thread: the request it is serving and how far it got
    admitted   \* history: per client address, handler runs begun in the current window

vars == <<storage, thread, admitted>>

\* ---------------------------------------------------------------- bounds
MaxImageLen == 5      \* longest `image` string drawn as input
MaxTextLen == 4       \* longest JSON-ish core of a model reply drawn as input
NumThreads == 2       \* worker threads serving requests at the same time

\* ---------------------------------------------------------------- sequences
Range(s) == { s[i] : i \in 1..Len(s) }

\* All sequences over S of length at most n.
SeqsUpTo(S, n) == UNION { [1..k -> S] : k \in 0..n }

Tail0(s, i) == SubSeq(s, i, Len(s))

\* Index of the first element of s that lies in seps, 0 when there is none.
FirstIn(s, seps) ==
    LET hits == { i \in 1..Len(s) : s[i] \in seps }
    IN  IF hits = {} THEN 0 ELSE CHOOSE i \in hits : \A j \in hits : i <= j

\* Python str.split(sep): the list of parts between separators. The separator
\* set stands for one separator text; a set is needed where one token of the
\* reply ends with or contains the separator text (see FenceMarkers).
RECURSIVE split(_, _)
split(s, seps) ==
    LET i == FirstIn(s, seps)
    IN  IF i = 0 THEN << s >>
        ELSE << SubSeq(s, 1, i - 1) >> \o split(Tail0(s, i + 1), seps)

\* ---------------------------------------------------------------- image values
\* Characters of an `image` string, by class: "A" a base64 alphabet character,
\* "=" the pad, "," the comma, "@" an ASCII character outside the alphabet,
\* "U" a non-ASCII character.
ImageChars == { "A", "=", ",", "@", "U" }
B64Alphabet == { "A" }

Str(s) == [t |-> "str", s |-> s, hasComma |-> "," \in Range(s)]
NonStr(t, c) == [t |-> t, s |-> <<>>, hasComma |-> c]

ImageStrings == { Str(s) : s \in SeqsUpTo(ImageChars, MaxImageLen) }
\* JSON values other than strings that `image` can hold: a number or true
\* ("num"), null, a list or an object, either of them with or without "," as
\* an element / key.
ImageNonStrings ==
    { NonStr("num", FALSE), NonStr("null", FALSE),
      NonStr("list", FALSE), NonStr("list", TRUE),
      NonStr("dict", FALSE), NonStr("dict", TRUE) }
ImageValues == ImageStrings \cup ImageNonStrings

\* `',' in image_data` (line 46): "TypeError" for a value that is not iterable.
CommaIn(v) ==
    IF v.t \in { "num", "null" } THEN "TypeError"
    ELSE IF v.hasComma THEN "True" ELSE "False"

\* binascii.a2b_base64 in its default, non-strict mode, as base64.b64decode
\* calls it (line 52): characters outside the alphabet are skipped, a pad that
\* completes a quad ends the scan, leftover data characters are an error.
RECURSIVE a2b_base64(_, _, _, _)
a2b_base64(s, i, quad_pos, pads) ==
    IF i > Len(s) THEN quad_pos = 0
    ELSE IF s[i] = "=" THEN
        IF quad_pos >= 2 /\ quad_pos + pads + 1 >= 4 THEN TRUE
        ELSE a2b_base64(s, i + 1, quad_pos, IF quad_pos >= 2 THEN pads + 1 ELSE pads)
    ELSE IF s[i] \notin B64Alphabet THEN a2b_base64(s, i + 1, quad_pos, pads)
    ELSE a2b_base64(s, i + 1, (quad_pos + 1) % 4, 0)

\* base64.b64decode(image_data) returns (TRUE) or raises (FALSE): a non-string
\* raises TypeError, a non-ASCII string ValueError, bad padding binascii.Error.
b64decode_ok(v) ==
    /\ v.t = "str"
    /\ "U" \notin Range(v.s)
    /\ a2b_base64(v.s, 1, 0, 0)

\* ---------------------------------------------------------------- request bodies
\* What request.get_json() meets: an unreadable body (it raises), or a JSON
\* value: null, a number n, a string s, a list or an object with `keys` as its
\* elements / keys and, for an object with the key, `image` as its value.
NoImage == NonStr("null", FALSE)
Body(kind, n, s, keys, image) ==
    [kind |-> kind, n |-> n, s |-> s, keys |-> keys, image |-> image]

BodiesWithoutImage ==
    { Body("unreadable", 0, "", {}, NoImage), Body("null", 0, "", {}, NoImage),
      Body("num", 0, "", {}, NoImage), Body("num", 5, "", {}, NoImage),
      Body("str", 0, "", {}, NoImage), Body("str", 0, "abc", {}, NoImage),
      Body("str", 0, "image", {}, NoImage),
      Body("list", 0, "", {}, NoImage), Body("list", 0, "", {"other"}, NoImage),
      Body("list", 0, "", {"image"}, NoImage),
      Body("obj", 0, "", {}, NoImage), Body("obj", 0, "", {"other"}, NoImage) }
BodyWithImage(v) == Body("obj", 0, "", {"image"}, v)
Bodies == BodiesWithoutImage \cup { BodyWithImage(v) : v \in ImageValues }

\* `not data` (line 38): Python truthiness of the parsed body.
Falsy(data) ==
    CASE data.kind = "null" -> TRUE
      [] data.kind = "num" -> data.n = 0
      [] data.kind = "str" -> data.s = ""
      [] OTHER -> data.keys = {}

\* `'image' in data` (line 38): membership for a list or an object, substring
\* test for a string, TypeError for a number.
ImageIn(data) ==
    CASE data.kind = "num" -> "TypeError"
      [] data.kind = "str" -> IF data.s = "image" THEN "True" ELSE "False"
      [] OTHER -> IF "image" \in data.keys THEN "True" ELSE "False"

\* ---------------------------------------------------------------- model replies
\* Tokens of the reply text: "J" the fence opener marked as JSON (three
\* backticks followed by json), "T" a fence marker not followed by json, "W"
\* whitespace, "x" prose, "[" "]" "," JSON punctuation, "n" the literal null,
\* "o" an object literal, "E" the Error placeholder object literal.
JsonFence == { "J" }
\* Every place where the text of a bare fence marker occurs: the opener "J"
\* begins with that text too.
FenceMarkers == { "T", "J" }
Whitespace == { "W" }
CoreTokens == { "[", "]", ",", "n", "o" }

\* JSON values: null, an object, the Error placeholder object, an array.
Null == [k |-> "null", items |-> <<>>]
Obj == [k |-> "obj", items |-> <<>>]
ErrorItem == [k |-> "error_item", items |-> <<>>]
Arr(items) == [k |-> "arr", items |-> items]

\* str.strip(): leading and trailing whitespace removed.
RECURSIVE lstrip(_)
lstrip(s) == IF s # <<>> /\ Head(s) \in Whitespace THEN lstrip(Tail(s)) ELSE s
RECURSIVE rstrip(_)
rstrip(s) ==
    IF s # <<>> /\ s[Len(s)] \in Whitespace THEN rstrip(SubSeq(s, 1, Len(s) - 1)) ELSE s
strip(s) == rstrip(lstrip(s))

\* json.loads, as the decoder scans: whitespace is skipped around every value
\* and every punctuation mark, the whole text must be one value.
RECURSIVE SkipWs(_, _)
SkipWs(toks, i) ==
    IF i <= Len(toks) /\ toks[i] \in Whitespace THEN SkipWs(toks, i + 1) ELSE i

Parsed(val, next) == [ok |-> TRUE, val |-> val, next |-> next]
JSONDecodeError == [ok |-> FALSE, val |-> Null, next |-> 0]

RECURSIVE ParseValue(_, _)
RECURSIVE ParseItems(_, _, _)
ParseValue(toks, i) ==
    IF i > Len(toks) THEN JSONDecodeError
    ELSE CASE toks[i] = "n" -> Parsed(Null, i + 1)
           [] toks[i] = "o" -> Parsed(Obj, i + 1)
           [] toks[i] = "E" -> Parsed(ErrorItem, i + 1)
           [] toks[i] = "[" ->
                LET j == SkipWs(toks, i + 1)
                IN  IF j <= Len(toks) /\ toks[j] = "]" THEN Parsed(Arr(<<>>), j + 1)
                    ELSE ParseItems(toks, j, <<>>)
           [] OTHER -> JSONDecodeError
ParseItems(toks, i, acc) ==
    LET v == ParseValue(toks, i)
        j == SkipWs(toks, v.next)
    IN  IF ~v.ok \/ j > Len(toks) THEN JSONDecodeError
        ELSE CASE toks[j] = "]" -> Parsed(Arr(Append(acc, v.val)), j + 1)
               [] toks[j] = "," -> ParseItems(toks, SkipWs(toks, j + 1), Append(acc, v.val))
               [] OTHER -> JSONDecodeError

json_loads(toks) ==
    LET v == ParseValue(toks, SkipWs(toks, 1))
    IN  IF v.ok /\ SkipWs(toks, v.next) > Len(toks) THEN v ELSE JSONDecodeError

\* jsonify's serialisation of a value (compact separators).
RECURSIVE dumps(_)
RECURSIVE dump_items(_)
dumps(val) ==
    CASE val.k = "null" -> << "n" >>
      [] val.k = "obj" -> << "o" >>
      [] val.k = "error_item" -> << "E" >>
      [] OTHER -> << "[" >> \o dump_items(val.items) \o << "]" >>
dump_items(items) ==
    IF items = <<>> THEN <<>>
    ELSE IF Len(items) = 1 THEN dumps(items[1])
    ELSE dumps(items[1]) \o << "," >> \o dump_items(Tail(items))

\* What the model call can come back with: a reply text, an exception raised
\* by generate_content, or a reply whose .text accessor raises.
NoReply == [kind |-> "none", text |-> <<>>]
TextReply(text) == [kind |-> "text", text |-> text]
CallRaised == [kind |-> "call_raised", text |-> <<>>]
TextRaised == [kind |-> "text_raised", text |-> <<>>]

Prefixes == { <<>>, << "J" >>, << "x", "J", "W" >>, << "T" >>, << "W" >> }
Suffixes == { <<>>, << "T" >>, << "W", "T", "x" >>, << "J", "o" >> }
\* Longer replies of the shapes the model produces: the prompt's own example
\* (a fenced array on lines of its own), prose around a fence, two fenced
\* blocks, whitespace inside the JSON text, a nested array.
LongReplies ==
    { << "J", "W", "[", "o", ",", "n", ",", "o", "]", "W", "T" >>,
      << "x", "W", "J", "W", "[", "W", "o", "W", ",", "W", "n", "W", "]", "W", "T", "W", "x" >>,
      << "J", "[", "n", "]", "T", "x", "J", "[", "o", "]", "T" >>,
      << "W", "[", "W", "n", ",", "[", "o", ",", "n", "]", "W", "]", "W" >>,
      << "T", "W", "[", "o", ",", "n", "]", "W", "T" >>,
      << "x", "J", "W", "o", "W", "T" >>,
      << "J", "[", "n", ",", "o", "]" >> }
Replies ==
    { p \o c \o s : p \in Prefixes, c \in SeqsUpTo(CoreTokens, MaxTextLen), s \in Suffixes }
        \cup LongReplies

\* ---------------------------------------------------------------- responses
NoResp == [form |-> "none", error |-> "", json |-> <<>>]
\* jsonify({'error': msg})
ErrorObject(msg) == [form |-> "error_object", error |-> msg, json |-> <<>>]
\* jsonify(value), as its serialised text
JsonBody(toks) == [form |-> "json", error |-> "", json |-> toks]
\* the limiter's own rejection response
LimiterBody == [form |-> "limiter", error |-> "", json |-> <<>>]

\* ---------------------------------------------------------------- the handler
Addrs == { "a1", "a2" }
Threads == 1..NumThreads

\* @limiter.limit("10 per minute")
RateLimit == 10

NoBody == Body("null", 0, "", {}, NoImage)
Idle ==
    [pc |-> "idle", addr |-> "-", data |-> NoBody, handler |-> FALSE,
     image_data |-> NoImage, calls |-> 0, reply |-> NoReply, json_str |-> <<>>,
     status |-> 0, body |-> NoResp]

\* A request from address a, with its body, handed to a worker thread.
Received(a, req) == [Idle EXCEPT !.pc = "running", !.addr = a, !.data = req]

\* `return jsonify(...), status`
Respond(th, status, body) == [th EXCEPT !.pc = "done", !.status = status, !.body = body]

\* Mutant of CatchAll: the outer handler answers with the parse-failure
\* placeholder instead of the error object.
CatchAllPlaceholder(th, msg) ==
    [th EXCEPT !.pc = "done", !.status = 500, !.body = JsonBody(<< "[", "E", "]" >>)]

\* The outer `except Exception as e` (lines 143-145).
CatchAll(th, msg) == Respond(th, 500, ErrorObject(msg))

\* The missing-image reply (lines 38-40).
NoImageProvided(th) == Respond(th, 400, ErrorObject("No image provided"))

\* The inner `except Exception` around b64decode (lines 53-55).
InvalidImageData(th) == Respond(th, 400, ErrorObject("Invalid image data"))

\* image_data.split(',')[1] (line 48).
strip_prefix(v) == Str(split(v.s, { "," })[2])

\* model.generate_content([...]) is entered (lines 104-107): the thread blocks
\* in the outbound call, which carries image_data.
Dispatch(th, image_data) ==
    [th EXCEPT !.pc = "calling", !.image_data = image_data, !.calls = @ + 1]

\* Lines 34-55 and the entry into the model call: the handler up to the point
\* where it either has responded or waits for the model.
BeforeReply(th) ==
    LET data == th.data
    IN  IF data.kind = "unreadable" THEN CatchAll(th, "BadRequest")
        ELSE IF Falsy(data) THEN NoImageProvided(th)
        ELSE IF ImageIn(data) = "TypeError" THEN CatchAll(th, "TypeError")
        ELSE IF ImageIn(data) = "False" THEN NoImageProvided(th)
        ELSE IF data.kind # "obj" THEN CatchAll(th, "TypeError")
        ELSE LET v == data.image
             IN  IF CommaIn(v) = "TypeError" THEN CatchAll(th, "TypeError")
                 ELSE IF CommaIn(v) = "True" /\ v.t # "str" THEN CatchAll(th, "AttributeError")
                 ELSE LET image_data == IF CommaIn(v) = "True" THEN strip_prefix(v) ELSE v
                      IN  IF ~b64decode_ok(image_data) THEN InvalidImageData(th)
                          ELSE Dispatch(th, image_data)

\* Mutant of ExtractJson: the block after the last JSON fence opener is taken
\* instead of the block after the first.
ExtractJsonLastFence(response_text) ==
    IF Range(response_text) \cap JsonFence # {}
    THEN LET parts == split(response_text, JsonFence)
         IN  strip(split(parts[Len(parts)], FenceMarkers)[1])
    ELSE strip(response_text)

\* Lines 115-118: the text handed to json.loads.
ExtractJson(response_text) ==
    IF Range(response_text) \cap JsonFence # {}
    THEN strip(split(split(response_text, JsonFence)[2], FenceMarkers)[1])
    ELSE strip(response_text)

\* Mutant of EnsureList: the parsed value is returned as it is.
EnsureListNoWrap(parsed_data) == parsed_data

\* Lines 124-125.
EnsureList(parsed_data) ==
    IF parsed_data.k # "arr" THEN Arr(<< parsed_data >>) ELSE parsed_data

\* Mutant of ParseFailure: the parse failure falls through to the outer
\* handler's error object.
ParseFailureAsErrorObject(th) == CatchAll(th, "JSONDecodeError")

\* `except json.JSONDecodeError` (lines 130-141).
ParseFailure(th) == Respond(th, 500, JsonBody(dumps(Arr(<< ErrorItem >>))))

\* Lines 110-141: the reply text arrived and is parsed.
AfterReply(th, response_text) ==
    LET json_str == ExtractJson(response_text)
        parsed == json_loads(json_str)
        th1 == [th EXCEPT !.reply = TextReply(response_text), !.json_str = json_str]
    IN  IF ~parsed.ok THEN ParseFailure(th1)
        ELSE Respond(th1, 200, JsonBody(dumps(EnsureList(parsed.val))))

\* Mutant of OnCallRaised: the call is made a second time before giving up.
OnCallRaisedRetry(th) ==
    CatchAll([th EXCEPT !.reply = CallRaised, !.calls = @ + 1], "ModelError")

\* generate_content raised: nothing catches it before the outer except.
OnCallRaised(th) == CatchAll([th EXCEPT !.reply = CallRaised], "ModelError")

\* response.text raised (a reply without text): it is no JSONDecodeError, so
\* the outer except takes it.
OnTextRaised(th) == CatchAll([th EXCEPT !.reply = TextRaised], "ValueError")

\* ---------------------------------------------------------------- the limiter
\* Mutant of KeyFunc: every address is counted under one key.
KeyFuncShared(a) == "a1"

\* Limiter(get_remote_address, ...): the key a request is counted under.
KeyFunc(a) == a

\* Mutant of WithinLimit: off by one.
WithinLimitOffByOne(hits) == hits <= RateLimit + 1

\* The fixed-window test of one hit: the hit is counted, then compared.
WithinLimit(hits) == hits <= RateLimit

\* The limiter's rejection: the handler body does not run.
Rejected(a, req) == [Respond(Received(a, req), 429, LimiterBody) EXCEPT !.handler = FALSE]

Admitted(a, req) == BeforeReply([Received(a, req) EXCEPT !.handler = TRUE])

\* ---------------------------------------------------------------- actions
Init ==
    /\ storage = [k \in Addrs |-> 0]
    /\ thread = [t \in Threads |-> Idle]
    /\ admitted = [a \in Addrs |-> 0]

\* A request from address a, its body one of reqs, arrives on an idle worker:
\* the limiter counts it and either rejects it or lets the handler run up to
\* its response or its model call.
Arrive(t, a, reqs) ==
    /\ thread[t].pc = "idle"
    /\ \E req \in reqs :
          LET k == KeyFunc(a)
              hits == IF storage[k] <= RateLimit THEN storage[k] + 1 ELSE storage[k]
          IN  /\ storage' = [storage EXCEPT ![k] = hits]
              /\ thread' = [thread EXCEPT ![t] =
                     IF WithinLimit(hits) THEN Admitted(a, req) ELSE Rejected(a, req)]
              /\ admitted' = IF WithinLimit(hits) THEN [admitted EXCEPT ![a] = @ + 1]
                             ELSE admitted

\* The model call returns a reply with text, one of replies.
ModelReply(t, replies) ==
    /\ thread[t].pc = "calling"
    /\ \E response_text \in replies :
          thread' = [thread EXCEPT ![t] = AfterReply(thread[t], response_text)]
    /\ UNCHANGED <<storage, admitted>>

\* The model call raises.
ModelRaises(t) ==
    /\ thread[t].pc = "calling"
    /\ thread' = [thread EXCEPT ![t] = OnCallRaised(thread[t])]
    /\ UNCHANGED <<storage, admitted>>

\* The model call returns a reply whose text cannot be read.
TextRaises(t) ==
    /\ thread[t].pc = "calling"
    /\ thread' = [thread EXCEPT ![t] = OnTextRaised(thread[t])]
    /\ UNCHANGED <<storage, admitted>>

\* The response is sent and the worker is free again.
Finish(t) ==
    /\ thread[t].pc = "done"
    /\ thread' = [thread EXCEPT ![t] = Idle]
    /\ UNCHANGED <<storage, admitted>>

\* The one-minute window of a key ends: its counter expires.
WindowExpire(k) ==
    /\ storage[k] > 0
    /\ storage' = [storage EXCEPT ![k] = 0]
    /\ admitted' = [a \in Addrs |-> IF KeyFunc(a) = k THEN 0 ELSE admitted[a]]
    /\ UNCHANGED thread

\* ---------------------------------------------------------------- inputs
ValidImage == Str(<< "A", "A", "A", "A" >>)
SmallBodies == { Body("obj", 0, "", {}, NoImage), BodyWithImage(ValidImage) }
SmallReplies == { << "J", "[", "o", "]", "T" >>, << "x" >> }

\* All worker threads, all addresses, a few bodies and replies.
Next ==
    \/ \E t \in Threads, a \in Addrs : Arrive(t, a, SmallBodies)
    \/ \E t \in Threads : ModelReply(t, SmallReplies)
    \/ \E t \in Threads : ModelRaises(t)
    \/ \E t \in Threads : TextRaises(t)
    \/ \E t \in Threads : Finish(t)
    \/ \E k \in Addrs : WindowExpire(k)

Spec == Init /\ [][Next]_vars

\* The first request a fresh process serves, over every request body and a
\* few replies.
NextInput ==
    \/ Arrive(1, "a1", Bodies)
    \/ ModelReply(1, SmallReplies)
    \/ ModelRaises(1)
    \/ TextRaises(1)

SpecInput == Init /\ [][NextInput]_vars

\* The first request a fresh process serves, over a few bodies and every
\* reply.
NextReply ==
    \/ Arrive(1, "a1", SmallBodies)
    \/ ModelReply(1, Replies)
    \/ ModelRaises(1)
    \/ TextRaises(1)

SpecReply == Init /\ [][NextReply]_vars

\* ---------------------------------------------------------------- claims
\* A request that got past the limiter and whose handler has responded or is
\* waiting for the model.
Handled(th) == th.handler /\ th.pc \in { "calling", "done" }
Answered(th) == th.handler /\ th.pc = "done"

HasImageKey(data) == data.kind = "obj" /\ "image" \in data.keys
\* A readable body that is absent (null) or has no `image` key.
MissingImage(data) == data.kind # "unreadable" /\ ~HasImageKey(data)

\* Everything after the first comma of an image string; the string itself
\* when it has no comma.
AfterFirstComma(s) ==
    LET i == FirstIn(s, { "," }) IN IF i = 0 THEN s ELSE Tail0(s, i + 1)

\* Base64 as RFC 4648 defines it: alphabet characters in quads, with at most
\* two pad characters, only at the end.
ValidBase64(s) ==
    /\ Len(s) % 4 = 0
    /\ \A i \in 1..Len(s) :
          \/ s[i] \in B64Alphabet
          \/ s[i] = "=" /\ i >= Len(s) - 1 /\ (i = Len(s) - 1 => s[Len(s)] = "=")

\* C1: a request that passes the rate limiter and whose body is missing or has
\* no key `image` is answered exactly 400 {error: "No image provided"}, and the
\* external model is not called.
C1_MissingImageIs400 ==
    \A t \in Threads :
        Handled(thread[t]) /\ MissingImage(thread[t].data)
            => /\ thread[t].pc = "done"
               /\ thread[t].status = 400
               /\ thread[t].body = ErrorObject("No image provided")
               /\ thread[t].calls = 0

\* C2: a request whose `image` string, after the optional prefix strip, is not
\* valid base64 is answered exactly 400 {error: "Invalid image data"} and is
\* never dispatched to the external model.
C2_InvalidBase64Is400 ==
    \A t \in Threads :
        LET th == thread[t]
        IN  /\ Handled(th)
            /\ HasImageKey(th.data)
            /\ th.data.image.t = "str"
            /\ ~ValidBase64(AfterFirstComma(th.data.image.s))
            => /\ th.pc = "done"
               /\ th.status = 400
               /\ th.body = ErrorObject("Invalid image data")
               /\ th.calls = 0

\* C3: for an `image` string with at least one comma the payload that is
\* forwarded to the model is everything after the first comma, however many
\* commas there are; a string without a comma is forwarded unchanged.
C3_PayloadIsAfterFirstComma ==
    \A t \in Threads :
        LET th == thread[t]
        IN  Handled(th) /\ th.calls > 0 /\ th.data.image.t = "str"
            => th.image_data = Str(AfterFirstComma(th.data.image.s))

\* The text between the first JSON fence opener and the next fence marker
\* after it (the end of the reply when there is none), trimmed; the whole
\* trimmed reply when there is no JSON fence opener.
FencedText(reply) ==
    LET i == FirstIn(reply, JsonFence)
        rest == Tail0(reply, i + 1)
        j == FirstIn(rest, FenceMarkers)
    IN  IF i = 0 THEN strip(reply)
        ELSE strip(IF j = 0 THEN rest ELSE SubSeq(rest, 1, j - 1))

\* C4: the text that is parsed is the trimmed content between the first JSON
\* fence opener and the next fence marker after it, or the whole trimmed reply
\* when there is no JSON fence; when it parses to an array the response is 200
\* and its body is that array, same elements in the same order.
C4_FencedArrayReturned ==
    \A t \in Threads :
        LET th == thread[t]
            want == json_loads(FencedText(th.reply.text))
        IN  Answered(th) /\ th.reply.kind = "text"
            => /\ th.json_str = FencedText(th.reply.text)
               /\ want.ok /\ want.val.k = "arr"
                    => /\ th.status = 200
                       /\ th.body.form = "json"
                       /\ json_loads(th.body.json) = Parsed(want.val, Len(th.body.json) + 1)

\* C4 witness: a reply with a JSON fence and a closing marker whose array of
\* two different elements came back in a 200 response.
C4_Witness ==
    \E t \in Threads :
        LET th == thread[t]
            i == FirstIn(th.reply.text, JsonFence)
        IN  /\ Answered(th) /\ th.reply.kind = "text" /\ th.status = 200
            /\ i > 0 /\ FirstIn(Tail0(th.reply.text, i + 1), FenceMarkers) > 0
            /\ json_loads(th.json_str).val.k = "arr"
            /\ Len(json_loads(th.body.json).val.items) >= 2
            /\ json_loads(th.body.json).val.items[1] # json_loads(th.body.json).val.items[2]

\* C5: every 200 response has an array body: a parsed reply that is not an
\* array is returned as the one-element array holding exactly that value, an
\* array is returned without extra wrapping.
C5_BodyIsArray ==
    \A t \in Threads :
        LET th == thread[t]
            got == json_loads(th.body.json)
            parsed == json_loads(th.json_str)
        IN  Answered(th) /\ th.status = 200
            => /\ th.body.form = "json"
               /\ got.ok /\ parsed.ok
               /\ got.val.k = "arr"
               /\ parsed.val.k # "arr" => got.val = Arr(<< parsed.val >>)
               /\ parsed.val.k = "arr" => got.val = parsed.val

\* C5 witness: a reply that is a single object came back as a one-element
\* array.
C5_Witness ==
    \E t \in Threads :
        /\ Answered(thread[t]) /\ thread[t].status = 200
        /\ json_loads(thread[t].json_str).val = Obj
        /\ json_loads(thread[t].body.json).val = Arr(<< Obj >>)

\* C6: a reply whose extracted text is not parseable JSON (an empty reply and
\* a reply whose fence is not marked as JSON included) is answered 500 with a
\* one-element array whose item has object_type "Error", never with the
\* {error: message} object.
C6_ParseFailureIsErrorArray ==
    \A t \in Threads :
        LET th == thread[t]
        IN  Answered(th) /\ th.reply.kind = "text" /\ ~json_loads(th.json_str).ok
            => /\ th.status = 500
               /\ th.body.form = "json"
               /\ th.body.form # "error_object"
               /\ json_loads(th.body.json).val = Arr(<< ErrorItem >>)

\* C6 witness: a reply with an array inside a fence that is not marked as
\* JSON was answered 500 with the Error placeholder.
C6_Witness ==
    \E t \in Threads :
        /\ Answered(thread[t]) /\ thread[t].status = 500
        /\ thread[t].reply = TextReply(<< "T", "W", "[", "o", ",", "n", "]", "W", "T" >>)
        /\ thread[t].body = JsonBody(<< "[", "E", "]" >>)

\* The failures the handler meets outside the reply's JSON parsing: an
\* unreadable body, a body on which the `image` lookup raises, an `image` value
\* that is no string, a failing model call, a reply without readable text.
BodyLookupRaises(data) ==
    /\ data.kind # "unreadable" /\ ~Falsy(data)
    /\ \/ ImageIn(data) = "TypeError"
       \/ ImageIn(data) = "True" /\ data.kind # "obj"
NonStringImage(data) ==
    data.kind # "unreadable" /\ HasImageKey(data) /\ data.image.t # "str"
\* A non-string `image` on which the comma test or the split raises: a number,
\* true or null, or a list or object that has "," as a member.
ImageRaisesBeforeDecode(data) ==
    NonStringImage(data) /\ CommaIn(data.image) # "False"
FailureOutsideDecode(th) ==
    \/ th.data.kind = "unreadable"
    \/ BodyLookupRaises(th.data)
    \/ ImageRaisesBeforeDecode(th.data)
    \/ th.reply.kind \in { "call_raised", "text_raised" }
IsErrorResponse(th) ==
    th.status = 500 /\ th.body.form = "error_object" /\ th.body.error # ""

\* C7 as stated: every failure other than a JSON parse failure of the reply,
\* a non-string `image` value included, gives 500 {error: message}.
C7_EveryFailureIs500 ==
    \A t \in Threads :
        LET th == thread[t]
        IN  Answered(th) /\ (FailureOutsideDecode(th) \/ NonStringImage(th.data))
            => IsErrorResponse(th)

\* C7 amended: every failure outside the base64 decoding step and outside the
\* reply's JSON parsing gives 500 {error: message}; a non-string `image` on
\* which the comma test finds nothing fails in the decoding step and gives
\* 400 {error: "Invalid image data"}; every admitted request ends in a JSON
\* response.
C7_FailureOutsideDecodeIs500 ==
    \A t \in Threads :
        LET th == thread[t]
        IN  /\ Answered(th) /\ FailureOutsideDecode(th) => IsErrorResponse(th)
            /\ Answered(th) /\ NonStringImage(th.data) /\ ~ImageRaisesBeforeDecode(th.data)
                 => th.status = 400 /\ th.body = ErrorObject("Invalid image data")
            /\ Answered(th) => th.status \in { 200, 400, 500 } /\ th.body.form # "none"

\* C7 witness: a failed model call was answered 500 {error: message}.
C7_Witness ==
    \E t \in Threads :
        /\ Answered(thread[t]) /\ thread[t].reply.kind = "call_raised"
        /\ IsErrorResponse(thread[t])

\* In this step thread t takes up a request.
Arrives(t) == thread[t].pc = "idle" /\ thread'[t].pc # "idle"
\* The request was turned away by the limiter: no handler run, no model call.
TurnedAway(th) ==
    th.pc = "done" /\ th.status = 429 /\ th.body = LimiterBody /\ ~th.handler /\ th.calls = 0

\* C8: of the requests of one client address at most 10 reach the handler in
\* one window; once 10 were admitted every further request of that address in
\* the window is rejected by the limiter without a handler run or a model
\* call; after the window has ended requests are admitted again.
C8_TenPerWindow ==
    [][ /\ \A a \in Addrs : admitted'[a] <= 10
        /\ \A t \in Threads :
              Arrives(t) =>
                 /\ admitted[thread'[t].addr] >= 10
                      => TurnedAway(thread'[t]) /\ admitted' = admitted
                 /\ admitted[thread'[t].addr] < 10
                      => /\ thread'[t].handler
                         /\ thread'[t].status # 429
                         /\ admitted'[thread'[t].addr] = admitted[thread'[t].addr] + 1
        /\ \A a \in Addrs :
              storage[a] > 0 /\ storage'[a] = 0 => admitted'[a] = 0 ]_vars

\* C8 witness: an address with 10 admitted requests in the window has a
\* request that the limiter turned away.
C8_Witness ==
    \E t \in Threads :
        /\ TurnedAway(thread[t])
        /\ admitted[thread[t].addr] = 10
        /\ storage[thread[t].addr] > 10

\* C9: a request makes at most one outbound call to the model, none after a
\* failed call or an unparseable reply, and makes it only after the presence
\* check and the base64 check have passed; a request answered 400 makes none.
C9_AtMostOneCall ==
    \A t \in Threads :
        LET th == thread[t]
        IN  /\ th.calls <= 1
            /\ th.status = 400 => th.calls = 0
            /\ th.pc = "calling" => th.calls = 1
            /\ th.calls >= 1
                 => /\ ~Falsy(th.data) /\ HasImageKey(th.data)
                    /\ th.image_data.t = "str" /\ b64decode_ok(th.image_data)

\* C9 witness: a request whose one model call failed ended with one call made.
C9_Witness ==
    \E t \in Threads :
        /\ Answered(thread[t]) /\ thread[t].reply.kind = "call_raised"
        /\ thread[t].calls = 1 /\ thread[t].status = 500

\* C10: requests share nothing but the per-address counter: a request is
\* rejected only when its own address has used up its 10, a step of one
\* request changes no other request and no other address's counter, and two
\* admitted requests with the same body and the same model reply get the same
\* status and body.
C10_RequestsIndependent ==
    [][ /\ \A t \in Threads :
              Arrives(t) =>
                 /\ thread'[t].status = 429 => admitted[thread'[t].addr] >= 10
                 /\ \A a \in Addrs \ { thread'[t].addr } :
                       storage'[a] = storage[a] /\ admitted'[a] = admitted[a]
        /\ \A t \in Threads :
              thread'[t] # thread[t] => \A u \in Threads \ { t } : thread'[u] = thread[u]
        /\ \A t \in Threads :
              thread'[t] # thread[t] /\ Answered(thread'[t]) =>
                 \A u \in Threads \ { t } :
                    /\ Answered(thread'[u])
                    /\ thread'[t].data = thread'[u].data
                    /\ thread'[t].reply = thread'[u].reply
                    => /\ thread'[t].status = thread'[u].status
                       /\ thread'[t].body = thread'[u].body ]_vars

\* C10 witness: while one address is over its quota and has a request turned
\* away, a request of the other address has run and got its 200 response.
C10_Witness ==
    \E t, u \in Threads :
        /\ TurnedAway(thread[t])
        /\ admitted[thread[t].addr] = 10
        /\ thread[u].addr # thread[t].addr
        /\ Answered(thread[u]) /\ thread[u].status = 200

====
